---- MODULE Spec2Model ----
(***************************************************************************)
(* Delivery-route planner of bionluk: the weekly assignment scheduler,     *)
(* the nearest-neighbour sequencer, the coordinate projector, the row      *)
(* exporter (bionluk/utils.py) and the two drivers that call them: the web *)
(* handler optimize (bionluk/views.py) and the command-line main.          *)
(*                                                                         *)
(* Python containers are modelled as follows.  A dict is a sequence of     *)
(* entries in insertion order (iteration order of a dict); a list is a     *)
(* sequence; list and matrix positions keep Python's 0-based numbering and *)
(* are shifted by one only where a TLA+ sequence is indexed.  A coordinate *)
(* is a pair of integers <<latitude, longitude>>.                          *)
(***************************************************************************)
EXTENDS Integers, Sequences, FiniteSets, TLC

\* ------------------------------------------------------------------ bounds
NumOutlets == 2      \* outlets in the data table of a scheduling run
MaxTrucks  == 2      \* largest truck count entered for a day
MaxVisits  == 4      \* largest total of the FREQUENCY column
MaxStops   == 3      \* outlets on the truck of a sequencer run
MaxCoord   == 3      \* largest latitude of an outlet of a sequencer run

\* --------------------------------------------------------- program values
NumDays == 5                       \* range(5)
Days    == 0 .. (NumDays - 1)
Depot   == 0 - 1                   \* the sentinel -1 of a route

UTILS_DEPOT_COORDINATES == <<41, 29>>   \* utils.DEPOT_COORDINATES, whole degrees
VIEWS_DEPOT_COORDINATES == <<0, 0>>     \* views.DEPOT_COORDINATES

None == <<>>                       \* Python None / a value not read yet

VARIABLES
    pc,                      \* position of the run
    entry,                   \* "none", "web" or "cli": the driver of the run
    trucks_input,            \* request.POST['trucks'] split at ',' (web)
    day_input,               \* the day as entered: <<n>>, or None
    selected_day,            \* views: selected_day; main: day; <<n>> or None
    data,                    \* the outlet table: OUTLET_ID -> row
    trucks_list,             \* trucks_list / truck_availability
    depot_coordinates,       \* argument of optimize_delivery_routes
    core_invoked,            \* optimize_delivery_routes has been called
    sorted_retailers,        \* the OUTLET_IDs in the order of sorted_retailers
    row,                     \* 1-based position of the next row of the loop
    retailer_id,             \* add_to_schedule: retailer_id
    frequency,               \* add_to_schedule: frequency
    available_days,          \* add_to_schedule: available_days
    weekly_schedule,         \* day -> dict truck_id -> list of OUTLET_ID
    optimized_routes_weekly, \* day -> dict truck_id -> route
    transformed_routes,      \* day -> list of routes of coordinates
    map_center,              \* plot_routes_on_map: <<depot_coordinates>> or None
    route_data               \* routes_to_dataframe: the rows

vars == <<pc, entry, trucks_input, day_input, selected_day, data, trucks_list,
          depot_coordinates, core_invoked, sorted_retailers, row, retailer_id,
          frequency, available_days, weekly_schedule, optimized_routes_weekly,
          transformed_routes, map_center, route_data>>

\* ----------------------------------------------------------------- helpers
Range(s) == {s[i] : i \in 1 .. Len(s)}

\* number of positions of list s that hold x
Count(s, x) == Cardinality({i \in 1 .. Len(s) : s[i] = x})

RECURSIVE SumOver(_, _)
SumOver(f, S) ==
    IF S = {} THEN 0
    ELSE LET x == CHOOSE y \in S : TRUE IN f[x] + SumOver(f, S \ {x})

\* every arrangement of the elements of S in a list
Arrangements(S) ==
    {s \in [1 .. Cardinality(S) -> S] : \A i, j \in DOMAIN s : i # j => s[i] # s[j]}

\* data.sort_values(by='FREQUENCY', ascending=False): the rows in descending
\* FREQUENCY; the order among equal frequencies is left open.
SortValuesDescending(table) ==
    {s \in Arrangements(DOMAIN table) :
        \A i, j \in DOMAIN s : i < j => table[s[i]].FREQUENCY >= table[s[j]].FREQUENCY}

EmptySchedule == [day \in Days |-> <<>>]

\* ------------------------------------------------- weekly assignment scheduler
\* day_trucks[day] of a Python list
DayTrucks(day_trucks, day) == day_trucks[day + 1]

\* a draw that takes the truck count itself as the upper end: randint(0, n)
TruckChoices_Inclusive(n) == 0 .. n

\* the values random.randint(0, n - 1) can return; empty when n < 1, and
\* randint then raises ValueError
TruckChoices(n) == 0 .. (n - 1)

\* a loop that discards the day before only
DiscardAdjacent_BeforeOnly(available, day) == available \ {day - 1}

\* for adjacent_day in [day - 1, day + 1]: available_days.discard(adjacent_day)
DiscardAdjacent(available, day) == available \ {day - 1, day + 1}

\* the keys of a dict
Keys(dict) == {dict[i].truck_id : i \in 1 .. Len(dict)}

\* dict[truck_id] of a key that is present
Lookup(dict, truck_id) ==
    dict[CHOOSE i \in 1 .. Len(dict) : dict[i].truck_id = truck_id].value

\* an assignment weekly_schedule[day][truck_id] = [retailer_id] in place of
\* the append
AppendToTruck_Overwrite(day_schedule, truck_id, retailer) ==
    IF \E i \in 1 .. Len(day_schedule) : day_schedule[i].truck_id = truck_id
    THEN [i \in 1 .. Len(day_schedule) |->
            IF day_schedule[i].truck_id = truck_id
            THEN [truck_id |-> truck_id, value |-> <<retailer>>]
            ELSE day_schedule[i]]
    ELSE Append(day_schedule, [truck_id |-> truck_id, value |-> <<retailer>>])

\* weekly_schedule[day][truck_id].append(retailer_id) on a defaultdict(list):
\* a missing key is inserted, at the end, with an empty list first
AppendToTruck(day_schedule, truck_id, retailer) ==
    IF truck_id \in Keys(day_schedule)
    THEN [i \in 1 .. Len(day_schedule) |->
            IF day_schedule[i].truck_id = truck_id
            THEN [truck_id |-> truck_id, value |-> Append(day_schedule[i].value, retailer)]
            ELSE day_schedule[i]]
    ELSE Append(day_schedule, [truck_id |-> truck_id, value |-> <<retailer>>])

\* optimize_delivery_routes is entered: create_weekly_schedule_with_dynamic_trucks
\* builds the empty schedule and sorts the table.
OptimizeDeliveryRoutes ==
    /\ pc = "call_core"
    /\ core_invoked' = TRUE
    /\ weekly_schedule' = EmptySchedule
    /\ sorted_retailers' \in SortValuesDescending(data)
    /\ row' = 1
    /\ pc' = "iterrows"
    /\ UNCHANGED <<entry, trucks_input, day_input, selected_day, data, trucks_list,
                   depot_coordinates, retailer_id, frequency, available_days,
                   optimized_routes_weekly, transformed_routes, map_center, route_data>>

\* for _, row in sorted_retailers.iterrows(): add_to_schedule(...) is called
\* for the next row, or the loop ends and weekly_schedule is returned.
IterRows ==
    /\ pc = "iterrows"
    /\ IF row <= Len(sorted_retailers)
       THEN /\ retailer_id' = sorted_retailers[row]
            /\ frequency' = data[sorted_retailers[row]].FREQUENCY
            /\ available_days' = Days
            /\ row' = row + 1
            /\ pc' = "add_to_schedule"
       ELSE /\ pc' = "sequence"
            /\ UNCHANGED <<retailer_id, frequency, available_days, row>>
    /\ UNCHANGED <<entry, trucks_input, day_input, selected_day, data, trucks_list,
                   depot_coordinates, core_invoked, sorted_retailers, weekly_schedule,
                   optimized_routes_weekly, transformed_routes, map_center, route_data>>

\* one test of `while frequency > 0` and, when it holds, one pass of the body
AddToSchedule ==
    /\ pc = "add_to_schedule"
    /\ IF frequency > 0
       THEN IF available_days = {}
            THEN /\ pc' = "failed"     \* raise ValueError("Cannot schedule ...")
                 /\ UNCHANGED <<frequency, available_days, weekly_schedule>>
            ELSE \E day \in available_days :
                    IF TruckChoices(DayTrucks(trucks_list, day)) = {}
                    THEN /\ pc' = "failed"     \* randint: empty range
                         /\ UNCHANGED <<frequency, available_days, weekly_schedule>>
                    ELSE \E truck_id \in TruckChoices(DayTrucks(trucks_list, day)) :
                            /\ weekly_schedule' =
                                 [weekly_schedule EXCEPT
                                    ![day] = AppendToTruck(@, truck_id, retailer_id)]
                            /\ frequency' = frequency - 1
                            /\ available_days' = DiscardAdjacent(available_days, day)
                            /\ pc' = "add_to_schedule"
       ELSE /\ pc' = "iterrows"
            /\ UNCHANGED <<frequency, available_days, weekly_schedule>>
    /\ UNCHANGED <<entry, trucks_input, day_input, selected_day, data, trucks_list,
                   depot_coordinates, core_invoked, sorted_retailers, row, retailer_id,
                   optimized_routes_weekly, transformed_routes, map_center, route_data>>

\* ------------------------------------------------------ daily route sequencer
\* coordinates.loc[point] once coordinates.loc[-1] = depot_coordinates is set
CoordinatesLoc(table, depot, point) ==
    IF point = Depot THEN depot
    ELSE <<table[point].LATITUDE, table[point].LONGITUDE>>

\* an entry of cdist(route_coords, route_coords, metric='euclidean'), squared:
\* the square root is increasing, so entries compare as their squares do
Cdist(route_coords, i, j) ==
    LET p == route_coords[i + 1]
        q == route_coords[j + 1]
    IN (p[1] - q[1]) * (p[1] - q[1]) + (p[2] - q[2]) * (p[2] - q[2])

\* a selection that keeps the last smallest element met
NextLocation_LastOnTies(unvisited, current_location, route_coords) ==
    CHOOSE x \in unvisited :
        \A y \in unvisited :
            \/ Cdist(route_coords, current_location, x) < Cdist(route_coords, current_location, y)
            \/ /\ Cdist(route_coords, current_location, x) = Cdist(route_coords, current_location, y)
               /\ x >= y

\* min(unvisited, key=lambda x: distances[current_location, x]): min keeps the
\* first smallest element met, and a set of small positive ints is iterated in
\* increasing order
NextLocation(unvisited, current_location, route_coords) ==
    CHOOSE x \in unvisited :
        \A y \in unvisited :
            \/ Cdist(route_coords, current_location, x) < Cdist(route_coords, current_location, y)
            \/ /\ Cdist(route_coords, current_location, x) = Cdist(route_coords, current_location, y)
               /\ x <= y

\* the loop `while unvisited`, then optimized_route.append(-1)
RECURSIVE Visit(_, _, _, _, _)
Visit(route_points, route_coords, current_location, unvisited, optimized_route) ==
    IF unvisited = {} THEN Append(optimized_route, Depot)
    ELSE LET next_location == NextLocation(unvisited, current_location, route_coords)
         IN Visit(route_points, route_coords, next_location,
                  unvisited \ {next_location},
                  Append(optimized_route, route_points[next_location + 1]))

\* the route of one truck
TruckRoute(retailers, table, depot) ==
    LET route_points == <<Depot>> \o retailers \o <<Depot>>
        route_coords == [i \in 1 .. Len(route_points) |->
                            CoordinatesLoc(table, depot, route_points[i])]
    IN Visit(route_points, route_coords, 0, 1 .. (Len(route_points) - 2), <<Depot>>)

NonEmpty(item) == item.value # <<>>

\* optimize_routes_for_a_day: a route for every truck with a non-empty list,
\* in the order of day_schedule.items()
OptimizeRoutesForADay(day_schedule, table, depot) ==
    LET kept == SelectSeq(day_schedule, NonEmpty)
    IN [i \in 1 .. Len(kept) |->
          [truck_id |-> kept[i].truck_id,
           value    |-> TruckRoute(kept[i].value, table, depot)]]

\* the loop over the five days in optimize_delivery_routes, and its return
SequenceWeek ==
    /\ pc = "sequence"
    /\ optimized_routes_weekly' =
          [day \in Days |-> OptimizeRoutesForADay(weekly_schedule[day], data, depot_coordinates)]
    /\ pc' = "transform"
    /\ UNCHANGED <<entry, trucks_input, day_input, selected_day, data, trucks_list,
                   depot_coordinates, core_invoked, sorted_retailers, row, retailer_id,
                   frequency, available_days, weekly_schedule, transformed_routes,
                   map_center, route_data>>

\* ---------------------------------------------------- projector and exporter
\* the coordinate pair written for one stop of a route
StopCoordinates(table, stop) ==
    IF stop # Depot THEN <<table[stop].LATITUDE, table[stop].LONGITUDE>>
    ELSE <<UTILS_DEPOT_COORDINATES[1], UTILS_DEPOT_COORDINATES[2]>>

\* transform_routes_to_coordinates: per day the list of the trucks' routes,
\* appended in the order of trucks_routes.items()
TransformRoutesToCoordinates(optimized_routes, table) ==
    [day \in DOMAIN optimized_routes |->
        [i \in 1 .. Len(optimized_routes[day]) |->
            [k \in 1 .. Len(optimized_routes[day][i].value) |->
                StopCoordinates(table, optimized_routes[day][i].value[k])]]]

\* the rows of one route; truck_id and step are the enumerate counters
RouteRows(day, truck_id, route) ==
    [k \in 1 .. Len(route) |->
        [Day |-> day + 1, Truck_ID |-> truck_id + 1, Step |-> (k - 1) + 1,
         Latitude |-> route[k][1], Longitude |-> route[k][2]]]

\* the rows of the routes of a day from enumerate counter truck_id on
RECURSIVE DayRows(_, _, _)
DayRows(day, day_routes, truck_id) ==
    IF truck_id >= Len(day_routes) THEN <<>>
    ELSE RouteRows(day, truck_id, day_routes[truck_id + 1])
            \o DayRows(day, day_routes, truck_id + 1)

\* the rows of the days from day on
RECURSIVE WeekRows(_, _)
WeekRows(transformed, day) ==
    IF day \notin DOMAIN transformed THEN <<>>
    ELSE DayRows(day, transformed[day], 0) \o WeekRows(transformed, day + 1)

\* routes_to_dataframe
RoutesToDataframe(transformed) == WeekRows(transformed, 0)

TransformRoutes ==
    /\ pc = "transform"
    /\ transformed_routes' = TransformRoutesToCoordinates(optimized_routes_weekly, data)
    /\ pc' = "plot"
    /\ UNCHANGED <<entry, trucks_input, day_input, selected_day, data, trucks_list,
                   depot_coordinates, core_invoked, sorted_retailers, row, retailer_id,
                   frequency, available_days, weekly_schedule, optimized_routes_weekly,
                   map_center, route_data>>

\* ------------------------------------------------------------------ drivers
\* one piece of trucks_input.split(','): integer tells whether int(x.strip())
\* succeeds, value is what it returns then
IntToken(n) == [integer |-> TRUE, value |-> n]
JunkToken   == [integer |-> FALSE, value |-> 0]

\* views.optimize, the try block: the parsed list, or ValueError
ParseFails(tokens) ==
    \/ \E i \in 1 .. Len(tokens) : ~tokens[i].integer
    \/ Len(tokens) # NumDays
ParsedTrucks(tokens) == [i \in 1 .. Len(tokens) |-> tokens[i].value]

\* the truck counts of the runs: none, one or two trucks on every day
RunTruckVectors == {[i \in 1 .. NumDays |-> n] : n \in 0 .. 2}

\* the truck field of the form: five integers, four, six, or a non-integer
WebTruckInputs ==
    {[i \in 1 .. NumDays |-> IntToken(v[i])] : v \in RunTruckVectors}
      \cup {[i \in 1 .. NumDays - 1 |-> IntToken(1)],
            [i \in 1 .. NumDays + 1 |-> IntToken(1)],
            [i \in 1 .. NumDays |-> IF i = 1 THEN JunkToken ELSE IntToken(1)]}

\* the days entered: the ends of 1 .. 5 and their outer neighbours
DayInputs == {0, 1, NumDays, NumDays + 1}

\* the uploaded tables: two outlets on a line through <<0, 0>>, each visited
\* at most twice a week
RunTables ==
    {[o \in {1, 2} |-> [FREQUENCY |-> f[o], LATITUDE |-> lat[o], LONGITUDE |-> 0]] :
        f \in [{1, 2} -> 0 .. 2], lat \in [{1, 2} -> 1 .. 2]}

\* get_truck_availability(): five integers
GetTruckAvailability == RunTruckVectors

\* views.optimize, a GET request: the page is rendered without a map
WebGet ==
    /\ pc = "start"
    /\ entry' = "web"
    /\ pc' = "rendered"
    /\ UNCHANGED <<trucks_input, day_input, selected_day, data, trucks_list,
                   depot_coordinates, core_invoked, sorted_retailers, row, retailer_id,
                   frequency, available_days, weekly_schedule, optimized_routes_weekly,
                   transformed_routes, map_center, route_data>>

\* views.optimize, a POST request up to the call of optimize_delivery_routes
WebPost ==
    /\ pc = "start"
    /\ entry' = "web"
    /\ \E tokens \in WebTruckInputs, d \in DayInputs, table \in RunTables :
          /\ trucks_input' = tokens
          /\ IF ParseFails(tokens)
             THEN /\ pc' = "rejected"       \* return HttpResponse(str(e))
                  /\ UNCHANGED <<day_input, selected_day, data, trucks_list,
                                 depot_coordinates>>
             ELSE /\ trucks_list' = ParsedTrucks(tokens)
                  /\ day_input' = <<d>>
                  /\ selected_day' = <<d>>
                  /\ data' = table
                  /\ depot_coordinates' = VIEWS_DEPOT_COORDINATES
                  /\ pc' = "call_core"
    /\ UNCHANGED <<core_invoked, sorted_retailers, row, retailer_id, frequency,
                   available_days, weekly_schedule, optimized_routes_weekly,
                   transformed_routes, map_center, route_data>>

\* views.optimize after the projection: the map of transformed_routes[selected_day]
WebPlot ==
    /\ pc = "plot"
    /\ entry = "web"
    /\ IF selected_day[1] \in DOMAIN transformed_routes
       THEN /\ map_center' = <<VIEWS_DEPOT_COORDINATES>>
            /\ pc' = "rendered"
       ELSE /\ pc' = "failed"               \* KeyError
            /\ UNCHANGED map_center
    /\ UNCHANGED <<entry, trucks_input, day_input, selected_day, data, trucks_list,
                   depot_coordinates, core_invoked, sorted_retailers, row, retailer_id,
                   frequency, available_days, weekly_schedule, optimized_routes_weekly,
                   transformed_routes, route_data>>

\* utils.main up to the call of optimize_delivery_routes
CliMain ==
    /\ pc = "start"
    /\ entry' = "cli"
    /\ data' \in RunTables
    /\ trucks_list' \in GetTruckAvailability
    /\ depot_coordinates' = UTILS_DEPOT_COORDINATES
    /\ pc' = "call_core"
    /\ UNCHANGED <<trucks_input, day_input, selected_day, core_invoked, sorted_retailers,
                   row, retailer_id, frequency, available_days, weekly_schedule,
                   optimized_routes_weekly, transformed_routes, map_center, route_data>>

\* utils.main after the projection: the day is asked for, the map of a day in
\* range is drawn, and the rows are saved
CliPlotAndSave ==
    /\ pc = "plot"
    /\ entry = "cli"
    /\ \E d \in DayInputs :
          /\ day_input' = <<d>>
          /\ selected_day' = <<d - 1>>
          /\ map_center' = IF 0 <= d - 1 /\ d - 1 < NumDays
                           THEN <<UTILS_DEPOT_COORDINATES>>
                           ELSE map_center
    /\ route_data' = RoutesToDataframe(transformed_routes)
    /\ pc' = "saved"
    /\ UNCHANGED <<entry, trucks_input, data, trucks_list, depot_coordinates,
                   core_invoked, sorted_retailers, row, retailer_id, frequency,
                   available_days, weekly_schedule, optimized_routes_weekly,
                   transformed_routes>>

\* ------------------------------------------------------------ a whole run
Init ==
    /\ pc = "start"
    /\ entry = "none"
    /\ trucks_input = None
    /\ day_input = None
    /\ selected_day = None
    /\ data = <<>>
    /\ trucks_list = <<>>
    /\ depot_coordinates = None
    /\ core_invoked = FALSE
    /\ sorted_retailers = <<>>
    /\ row = 1
    /\ retailer_id = 0
    /\ frequency = 0
    /\ available_days = {}
    /\ weekly_schedule = EmptySchedule
    /\ optimized_routes_weekly = EmptySchedule
    /\ transformed_routes = EmptySchedule
    /\ map_center = None
    /\ route_data = <<>>

Next ==
    \/ WebGet
    \/ WebPost
    \/ CliMain
    \/ OptimizeDeliveryRoutes
    \/ IterRows
    \/ AddToSchedule
    \/ SequenceWeek
    \/ TransformRoutes
    \/ WebPlot
    \/ CliPlotAndSave

Spec == Init /\ [][Next]_vars

\* ------------------------------------------------ a scheduling run on its own
OutletIds == 1 .. NumOutlets

\* tables whose FREQUENCY column lies in 0 .. 5, does not increase with the
\* OUTLET_ID and sums to at most MaxVisits; outlet o lies at <<o, 0>>
SchedTables ==
    {[o \in OutletIds |-> [FREQUENCY |-> f[o], LATITUDE |-> o, LONGITUDE |-> 0]] :
        f \in {g \in [OutletIds -> 0 .. NumDays] :
                  /\ SumOver(g, OutletIds) <= MaxVisits
                  /\ \A o \in OutletIds : o > 1 => g[o - 1] >= g[o]}}

\* truck counts of the five days: n on every day, or n on every day but the
\* middle one, which has no truck
TruckVectors ==
    {[i \in 1 .. NumDays |-> IF i = z THEN 0 ELSE n] :
        n \in 1 .. MaxTrucks, z \in {0, (NumDays + 1) \div 2}}

InitSched ==
    /\ pc = "call_core"
    /\ entry = "cli"
    /\ trucks_input = None
    /\ day_input = None
    /\ selected_day = None
    /\ data \in SchedTables
    /\ trucks_list \in TruckVectors
    /\ depot_coordinates = UTILS_DEPOT_COORDINATES
    /\ core_invoked = FALSE
    /\ sorted_retailers = <<>>
    /\ row = 1
    /\ retailer_id = 0
    /\ frequency = 0
    /\ available_days = {}
    /\ weekly_schedule = EmptySchedule
    /\ optimized_routes_weekly = EmptySchedule
    /\ transformed_routes = EmptySchedule
    /\ map_center = None
    /\ route_data = <<>>

NextSched == OptimizeDeliveryRoutes \/ IterRows \/ AddToSchedule

SpecSched == InitSched /\ [][NextSched]_vars

\* ------------------------------------------------- a sequencer run on its own
StopIds == 1 .. MaxStops

\* the lists of distinct outlets a truck can hold: outlets 1 .. n in
\* increasing and in decreasing order
StopLists ==
    UNION {{[i \in 1 .. n |-> i], [i \in 1 .. n |-> n + 1 - i]} : n \in 1 .. MaxStops}

PositionIn(list, o) == CHOOSE i \in 1 .. Len(list) : list[i] = o

\* the state in which create_weekly_schedule_with_dynamic_trucks has returned
\* when the outlets of list retailers are visited once a week, the others, which
\* lie at <<0, 0>>, never, and every draw was day 0, truck 0
InitSeq ==
    \E retailers \in StopLists, web \in BOOLEAN :
        /\ pc = "sequence"
        /\ entry = IF web THEN "web" ELSE "cli"
        /\ trucks_input = IF web THEN [i \in 1 .. NumDays |-> IntToken(1)] ELSE None
        /\ day_input = IF web THEN <<1>> ELSE None
        /\ selected_day = IF web THEN <<1>> ELSE None
        /\ data \in {[o \in StopIds |->
                        IF o \in Range(retailers)
                        THEN [FREQUENCY |-> 1, LATITUDE |-> lat[PositionIn(retailers, o)],
                              LONGITUDE |-> lon[PositionIn(retailers, o)]]
                        ELSE [FREQUENCY |-> 0, LATITUDE |-> 0, LONGITUDE |-> 0]] :
                      lat \in [1 .. Len(retailers) -> 0 .. MaxCoord],
                      lon \in [1 .. Len(retailers) -> 0 .. 1]}
        /\ trucks_list = [i \in 1 .. NumDays |-> 1]
        /\ depot_coordinates = IF web THEN VIEWS_DEPOT_COORDINATES
                               ELSE UTILS_DEPOT_COORDINATES
        /\ core_invoked = TRUE
        /\ sorted_retailers \in
              {s \in SortValuesDescending(data) :
                  /\ SubSeq(s, 1, Len(retailers)) = retailers
                  /\ \A i, j \in DOMAIN s : Len(retailers) < i /\ i < j => s[i] < s[j]}
        /\ row = MaxStops + 1
        /\ retailer_id = sorted_retailers[MaxStops]
        /\ frequency = 0
        /\ available_days = IF Len(retailers) = MaxStops THEN Days \ {1} ELSE Days
        /\ weekly_schedule =
              [day \in Days |-> IF day = 0 THEN <<[truck_id |-> 0, value |-> retailers]>>
                                ELSE <<>>]
        /\ optimized_routes_weekly = EmptySchedule
        /\ transformed_routes = EmptySchedule
        /\ map_center = None
        /\ route_data = <<>>

NextSeq == SequenceWeek

SpecSeq == InitSeq /\ [][NextSeq]_vars

\* ================================================================ properties
Frequency(o) == data[o].FREQUENCY

\* the (day, position) pairs of the truck lists of the weekly schedule
TruckLists == UNION {{<<day, i>> : i \in 1 .. Len(weekly_schedule[day])} : day \in Days}
ListAt(dl) == weekly_schedule[dl[1]][dl[2]].value

\* the days on which outlet o appears, and the lists that contain it
DaysOf(o)    == {day \in Days : \E i \in 1 .. Len(weekly_schedule[day]) :
                                      o \in Range(weekly_schedule[day][i].value)}
ListsWith(o) == {dl \in TruckLists : o \in Range(ListAt(dl))}

RECURSIVE SumCounts(_, _)
SumCounts(o, lists) ==
    IF lists = {} THEN 0
    ELSE LET dl == CHOOSE x \in lists : TRUE
         IN Count(ListAt(dl), o) + SumCounts(o, lists \ {dl})

\* occurrences of o over all truck lists, with multiplicity
Occurrences(o) == SumCounts(o, TruckLists)

\* create_weekly_schedule_with_dynamic_trucks has just returned
ScheduleReturned == pc = "sequence"

\* C1: in a returned weekly schedule every outlet is on exactly `frequency`
\* distinct days: the days and the truck lists that hold it both number its
\* frequency, no list holds it twice, and, while an outlet is being placed, a
\* day already picked for it is no longer a candidate day.
C1_ExactlyFrequencyDistinctDays ==
    /\ ScheduleReturned =>
          \A o \in DOMAIN data :
              /\ Cardinality(DaysOf(o)) = Frequency(o)
              /\ Cardinality(ListsWith(o)) = Frequency(o)
              /\ \A dl \in TruckLists : Count(ListAt(dl), o) <= 1
    /\ pc = "add_to_schedule" => available_days \cap DaysOf(retailer_id) = {}

\* C2: in a returned weekly schedule no outlet is on day d and on day d + 1,
\* for d in 0 .. 3.
C2_NoAdjacentDays ==
    ScheduleReturned =>
        \A o \in DOMAIN data :
            LET days == DaysOf(o)
            IN \A d \in 0 .. (NumDays - 2) : ~(d \in days /\ d + 1 \in days)

\* an outlet of three visits is on days 0, 2 and 4: the two ends of the week
\* are both used
C2_Witness ==
    /\ ScheduleReturned
    /\ \E o \in DOMAIN data : Frequency(o) = 3 /\ DaysOf(o) = {0, 2, 4}

\* the days still free for outlet o when no visit may share a day with, or be
\* next to, an earlier one
FreeDays(o) == {d \in Days : \A u \in DaysOf(o) : d # u /\ d # u - 1 /\ d # u + 1}

\* C3: when visits of an outlet remain and no day is left that is neither
\* used by the outlet nor next to a used one, the scheduler aborts with the
\* error at once; it places no further visit and returns no schedule.
C3_AbortsWhenInfeasible ==
    [][(pc = "add_to_schedule" /\ frequency > 0 /\ FreeDays(retailer_id) = {})
          => pc' = "failed"]_vars

\* the (day, position) pairs of the routes of the weekly route plan
Routes == UNION {{<<day, i>> : i \in 1 .. Len(optimized_routes_weekly[day])} : day \in Days}
RouteAt(dr)      == optimized_routes_weekly[dr[1]][dr[2]].value
AssignedTo(dr)   == Lookup(weekly_schedule[dr[1]], optimized_routes_weekly[dr[1]][dr[2]].truck_id)
Interior(route)  == {route[k] : k \in 2 .. (Len(route) - 1)}

\* optimize_delivery_routes has just returned
PlanReturned == pc = "transform"

\* C4: every route of the weekly route plan starts and ends at the depot
\* sentinel, every stop in between is an outlet that is in the route exactly
\* once, and those outlets are exactly the ones assigned to the truck that day.
C4_RouteShape ==
    PlanReturned =>
        \A dr \in Routes :
            LET route == RouteAt(dr) IN
            /\ Len(route) >= 2
            /\ route[1] = Depot
            /\ route[Len(route)] = Depot
            /\ \A k \in 2 .. (Len(route) - 1) :
                  route[k] # Depot /\ Count(route, route[k]) = 1
            /\ Interior(route) = Range(AssignedTo(dr))

\* C5: in a returned weekly schedule the occurrences of an outlet over all
\* truck lists of the week, counted with multiplicity, number its frequency.
C5_TotalEqualsFrequency ==
    ScheduleReturned => \A o \in DOMAIN data : Occurrences(o) = Frequency(o)

\* one outlet is never visited and appears nowhere; another is visited more
\* than once, twice in one truck list
C5_Witness ==
    /\ ScheduleReturned
    /\ \E o \in DOMAIN data : Frequency(o) = 0 /\ ListsWith(o) = {}
    /\ \E o \in DOMAIN data : \E dl \in TruckLists :
          Frequency(o) >= 2 /\ Count(ListAt(dl), o) >= 2

\* C6: in every state the truck indices used on day d lie in
\* 0 .. num_trucks_per_day[d] - 1; a day without trucks holds no outlet.
C6_TruckIndexInRange ==
    \A day \in Days : \A t \in Keys(weekly_schedule[day]) :
        /\ 0 <= t
        /\ t <= DayTrucks(trucks_list, day) - 1

\* a day without trucks was picked and ended the run, after the last truck of
\* another day had taken an outlet
C6_Witness ==
    /\ pc = "failed"
    /\ \E day \in Days : DayTrucks(trucks_list, day) = 0
    /\ \E day \in Days :
          /\ DayTrucks(trucks_list, day) >= 2
          /\ DayTrucks(trucks_list, day) - 1 \in Keys(weekly_schedule[day])

\* the input of the run is invalid: the truck field does not hold five
\* integers, or the day entered is outside 1 .. 5
InvalidInput ==
    \/ /\ trucks_input # None
       /\ \/ Len(trucks_input) # NumDays
          \/ \E i \in 1 .. Len(trucks_input) : ~trucks_input[i].integer
    \/ /\ day_input # None
       /\ day_input[1] \notin 1 .. NumDays

\* C7: the core never runs in a run whose input is invalid.
C7_RejectedBeforeCore == InvalidInput => ~core_invoked

\* the rows of the routes of a day from position i on, numbered by the truck
\* keys of the weekly route plan
RECURSIVE KeyedDayRows(_, _)
KeyedDayRows(day, i) ==
    IF i > Len(optimized_routes_weekly[day]) THEN <<>>
    ELSE [k \in 1 .. Len(transformed_routes[day][i]) |->
            [Day |-> day + 1, Truck_ID |-> optimized_routes_weekly[day][i].truck_id + 1,
             Step |-> k, Latitude |-> transformed_routes[day][i][k][1],
             Longitude |-> transformed_routes[day][i][k][2]]]
         \o KeyedDayRows(day, i + 1)

RECURSIVE KeyedWeekRows(_)
KeyedWeekRows(day) ==
    IF day \notin Days THEN <<>> ELSE KeyedDayRows(day, 1) \o KeyedWeekRows(day + 1)

\* C8: the rows exported for the route of day d and truck key t carry
\* Day = d + 1 and Truck ID = t + 1.
C8_OneBasedDayAndTruck == pc = "saved" => route_data = KeyedWeekRows(0)

\* the coordinate of a stop in the sequencer, and the squared distance
PointOf(stop) ==
    IF stop = Depot THEN depot_coordinates
    ELSE <<data[stop].LATITUDE, data[stop].LONGITUDE>>
SqDistance(a, b) ==
    (PointOf(a)[1] - PointOf(b)[1]) * (PointOf(a)[1] - PointOf(b)[1])
      + (PointOf(a)[2] - PointOf(b)[2]) * (PointOf(a)[2] - PointOf(b)[2])

\* outlets a, b, c lie on the line through the depot at distances 1, 2, 3
Colinear(a, b, c) ==
    /\ depot_coordinates = <<0, 0>>
    /\ PointOf(a) = <<1, 0>> /\ PointOf(b) = <<2, 0>> /\ PointOf(c) = <<3, 0>>

\* C9: in every route each outlet stop is a nearest one among the outlets of
\* the truck not yet placed, seen from the stop before it, and among equally
\* near ones the one lowest in the assignment list; outlets at distances 1, 2
\* and 3 on a line through the depot are visited in that order.
C9_NearestUnvisited ==
    PlanReturned =>
        \A dr \in Routes :
            LET route == RouteAt(dr)
                list  == AssignedTo(dr)
            IN /\ \A k \in 1 .. (Len(route) - 2) :
                    \A o \in Range(list) \ {route[j] : j \in 2 .. k} :
                        /\ SqDistance(route[k], route[k + 1]) <= SqDistance(route[k], o)
                        /\ SqDistance(route[k], route[k + 1]) = SqDistance(route[k], o)
                              => PositionIn(list, route[k + 1]) <= PositionIn(list, o)
               /\ \A a, b, c \in Range(list) :
                    Colinear(a, b, c) /\ Len(list) = 3 => route = <<Depot, a, b, c, Depot>>

\* three outlets on a line were listed farthest first and are visited nearest
\* first; and a route in which two equally near outlets were listed
C9_Witness ==
    /\ PlanReturned
    /\ \E dr \in Routes : \E a, b, c \in Range(AssignedTo(dr)) :
          /\ Colinear(a, b, c)
          /\ AssignedTo(dr) = <<c, b, a>>
          /\ RouteAt(dr) = <<Depot, a, b, c, Depot>>

\* C10: the coordinate written for the depot sentinel of every projected route
\* and the centre of the map are the depot coordinate passed to the sequencer.
C10_OneDepot ==
    /\ \A day \in Days : \A i \in 1 .. Len(transformed_routes[day]) :
          /\ transformed_routes[day][i][1] = depot_coordinates
          /\ transformed_routes[day][i][Len(transformed_routes[day][i])] = depot_coordinates
    /\ map_center # None => map_center[1] = depot_coordinates

====
